---- MODULE Spec2Model ----
(***************************************************************************)
(* A model of the object-helpers library: string-path addressed reads and  *)
(* writes into nested arrays and objects (findDirectPropInObject,          *)
(* findPropInObject), and the operations built on them (queryObject,       *)
(* mergeObjects, deepCopy, deepCompare, applyDefaults).                    *)
(*                                                                         *)
(* JavaScript values are modelled over an explicit heap, so that object    *)
(* identity, shallow cloning and in-place mutation are all visible.  Every *)
(* function of the library becomes an operator that takes the heap and     *)
(* returns an outcome [h, v, e]: the heap after the call, the value        *)
(* returned, and the error thrown ("none" when the call returns).          *)
(***************************************************************************)
EXTENDS Integers, Sequences, FiniteSets, TLC

(***************************************************************************)
(* Bounds of the model.                                                    *)
(***************************************************************************)
\* longest path, in segments, that the enumerated calls use
MaxPathLen == 2
\* frames the call stack holds before the engine throws RangeError
MaxStack == 8
\* longest array among the flat input arrays
MaxArrLen == 2

(***************************************************************************)
(* Values.  A value is a record [t, n, s]: t is the tag, n the payload of  *)
(* a number, a boolean or a reference (a heap address), s the payload of a *)
(* string or the name of a function.  "hole" is the absent element of a    *)
(* sparse array; it is never handed to the code as a value.                *)
(***************************************************************************)
Undef == [t |-> "undefined", n |-> 0, s |-> ""]
Null == [t |-> "null", n |-> 0, s |-> ""]
Hole == [t |-> "hole", n |-> 0, s |-> ""]
Num(k) == [t |-> "number", n |-> k, s |-> ""]
Str(x) == [t |-> "string", n |-> 0, s |-> x]
Bool(b) == [t |-> "boolean", n |-> IF b THEN 1 ELSE 0, s |-> ""]
Ref(a) == [t |-> "ref", n |-> a, s |-> ""]
Fn(name) == [t |-> "function", n |-> 0, s |-> name]

IsRef(v) == v.t = "ref"

\* a sequence given as a function of its positions, as a tuple
Tup(f) == SubSeq(f, 1, Len(f))

\* a value read out of an array slot: a hole reads as undefined
Unhole(v) == IF v.t = "hole" THEN Undef ELSE v

(***************************************************************************)
(* Heap objects: an array has elements (elems) and possibly named,         *)
(* non-index properties (ents); an object has only ents, kept in the       *)
(* engine's own-key order (integer keys ascending, then insertion order).  *)
(***************************************************************************)
NewArray(elems) == [kind |-> "array", elems |-> elems, ents |-> <<>>]
NewObject(ents) == [kind |-> "object", elems |-> <<>>, ents |-> ents]
Ent(k, v) == [k |-> k, v |-> v]

\* outcomes of a call
Ok(h, v) == [h |-> h, v |-> v, e |-> "none"]
Err(h, e) == [h |-> h, v |-> Undef, e |-> e]

\* allocate a fresh object on the heap
Alloc(h, o) == [h |-> Append(h, o), v |-> Ref(Len(h) + 1), e |-> "none"]

\* canonical numeric strings: the property key of an array index
IdxKeys == <<"0", "1", "2", "3", "4", "5", "6", "7", "8", "9">>
IsIdx(k) == \E i \in 1..Len(IdxKeys) : IdxKeys[i] = k
IdxOf(k) == (CHOOSE i \in 1..Len(IdxKeys) : IdxKeys[i] = k) - 1
IdxStr(i) == IdxKeys[i + 1]

\* Object.prototype.toString based classification
getObjectType(h, v) == IF IsRef(v) THEN h[v.n].kind ELSE v.t

IsComposite(h, v) == getObjectType(h, v) \in {"array", "object"}

(***************************************************************************)
(* Property access on heap objects.                                        *)
(***************************************************************************)
HasEnt(ents, k) == \E i \in 1..Len(ents) : ents[i].k = k
EntPos(ents, k) == CHOOSE i \in 1..Len(ents) : ents[i].k = k
GetEnt(ents, k) == IF HasEnt(ents, k) THEN ents[EntPos(ents, k)].v ELSE Undef

\* position at which a new key enters the own-key order
InsertPos(ents, k) ==
  IF IsIdx(k)
  THEN LET later == {i \in 1..Len(ents) :
                       ~IsIdx(ents[i].k) \/ IdxOf(ents[i].k) > IdxOf(k)}
       IN IF later = {} THEN Len(ents) + 1
          ELSE CHOOSE i \in later : \A j \in later : i <= j
  ELSE Len(ents) + 1

SetEnt(ents, k, v) ==
  IF HasEnt(ents, k)
  THEN [ents EXCEPT ![EntPos(ents, k)] = Ent(k, v)]
  ELSE LET p == InsertPos(ents, k)
       IN SubSeq(ents, 1, p - 1) \o <<Ent(k, v)>> \o SubSeq(ents, p, Len(ents))

DelEnt(ents, k) ==
  IF HasEnt(ents, k)
  THEN LET p == EntPos(ents, k)
       IN SubSeq(ents, 1, p - 1) \o SubSeq(ents, p + 1, Len(ents))
  ELSE ents

\* the strings of the model have at most one character
StrLen(x) == IF x = "" THEN 0 ELSE 1

\* obj[prop] on an array or object; a string exposes its characters
GetProp(h, v, prop) ==
  IF IsRef(v)
  THEN LET o == h[v.n]
       IN IF o.kind = "array" /\ IsIdx(prop)
          THEN IF IdxOf(prop) < Len(o.elems)
               THEN Unhole(o.elems[IdxOf(prop) + 1]) ELSE Undef
          ELSE GetEnt(o.ents, prop)
  ELSE IF v.t = "string" /\ IsIdx(prop) /\ IdxOf(prop) < StrLen(v.s)
       THEN Str(v.s)
       ELSE Undef

\* elems with index i (0-based) set, the array growing through holes
SetElem(elems, i, v) ==
  IF i < Len(elems)
  THEN [elems EXCEPT ![i + 1] = v]
  ELSE elems \o Tup([j \in 1..(i - Len(elems)) |-> Hole]) \o <<v>>

\* obj[prop] = value on an array or object
SetProp(h, r, prop, v) ==
  LET o == h[r.n]
  IN IF o.kind = "array" /\ IsIdx(prop)
     THEN [h EXCEPT ![r.n].elems = SetElem(o.elems, IdxOf(prop), v)]
     ELSE [h EXCEPT ![r.n].ents = SetEnt(o.ents, prop, v)]

\* delete obj[prop] on an object
DeleteProp(h, r, prop) == [h EXCEPT ![r.n].ents = DelEnt(h[r.n].ents, prop)]

\* array.splice(prop, 1): a non-numeric start converts to 0
Splice(h, r, prop) ==
  LET o == h[r.n]
      start == IF IsIdx(prop) THEN IdxOf(prop) ELSE 0
  IN IF start < Len(o.elems)
     THEN [h EXCEPT ![r.n].elems =
             SubSeq(o.elems, 1, start) \o SubSeq(o.elems, start + 2, Len(o.elems))]
     ELSE h

\* Object.keys(obj): present indices, then named keys
ObjectKeys(h, r) ==
  LET o == h[r.n]
      idx == SelectSeq(Tup([i \in 1..Len(o.elems) |-> i]), LAMBDA i : o.elems[i].t # "hole")
  IN Tup([i \in 1..Len(idx) |-> IdxStr(idx[i] - 1)]) \o Tup([i \in 1..Len(o.ents) |-> o.ents[i].k])

\* [...arr]: a fresh array of the elements, holes read as undefined
SpreadArray(h, r) ==
  Alloc(h, NewArray(Tup([i \in 1..Len(h[r.n].elems) |-> Unhole(h[r.n].elems[i])])))

\* the own enumerable entries that {...v} copies
OwnEntries(h, v) ==
  IF IsRef(v)
  THEN LET ks == ObjectKeys(h, v) IN Tup([i \in 1..Len(ks) |-> Ent(ks[i], GetProp(h, v, ks[i]))])
  ELSE IF v.t = "string" THEN Tup([i \in 1..StrLen(v.s) |-> Ent(IdxStr(i - 1), Str(v.s))])
  ELSE <<>>

\* {...obj}: a fresh object of the own entries
SpreadObject(h, v) == Alloc(h, NewObject(OwnEntries(h, v)))

(***************************************************************************)
(* Path expressions.  A path string is modelled as the sequence of its     *)
(* lexical tokens: the delimiters "[", "]" and ".", and maximal runs of    *)
(* other characters.  ParsePath is the four regular-expression steps of    *)
(* findPropInObject and yields the segments; JoinPath is join('.').        *)
(***************************************************************************)
IsDelim(tok) == tok \in {"[", "]", "."}

\* replace(/^\[|\]$/g, ''): drop one leading "[" and one trailing "]"
StripBrackets(p) ==
  LET a == IF Len(p) > 0 /\ p[1] = "[" THEN Tail(p) ELSE p
  IN IF Len(a) > 0 /\ a[Len(a)] = "]" THEN SubSeq(a, 1, Len(a) - 1) ELSE a

\* replace(/\[|\]/g, '.')
BracketsToDots(p) == Tup([i \in 1..Len(p) |-> IF p[i] \in {"[", "]"} THEN "." ELSE p[i]])

\* replace(/\.{2,}/g, '.')
CollapseDots(p) ==
  SelectSeq(Tup([i \in 1..Len(p) |-> IF p[i] = "." /\ i > 1 /\ p[i - 1] = "." THEN "" ELSE p[i]]),
            LAMBDA tok : tok # "")

\* split('.')
RECURSIVE SplitDots(_, _)
SplitDots(p, cur) ==
  IF p = <<>> THEN <<cur>>
  ELSE IF Head(p) = "." THEN <<cur>> \o SplitDots(Tail(p), "")
  ELSE SplitDots(Tail(p), cur \o Head(p))

ParsePath(pathStr) == SplitDots(CollapseDots(BracketsToDots(StripBrackets(pathStr))), "")

\* segments.join('.')
RECURSIVE JoinPath(_)
JoinPath(segs) ==
  IF segs = <<>> THEN <<>>
  ELSE (IF Head(segs) = "" THEN <<>> ELSE <<Head(segs)>>)
       \o (IF Len(segs) > 1 THEN <<".">> \o JoinPath(Tail(segs)) ELSE <<>>)

(***************************************************************************)
(* Value transformers that callers pass as replacement values.             *)
(***************************************************************************)
\* dropOne: x => x === 1 ? undefined : (typeof x === 'number' ? x + 10 : 't')
\* toUndef: x => undefined
Apply(f, v) ==
  IF f.s = "dropOne"
  THEN IF v = Num(1) THEN Undef
       ELSE IF v.t = "number" THEN Num(v.n + 10) ELSE Str("t")
  ELSE Undef

\* the values that `||` replaces
Falsy(v) == v \in {Undef, Null, Num(0), Str(""), Bool(FALSE)}

(***************************************************************************)
(* findDirectPropInObject(obj, prop, copyByRef, ...args).  rep is          *)
(* args.length > 0, value is args[0], d the stack frames left.             *)
(***************************************************************************)
RECURSIVE findDirectPropInObject(_, _, _, _, _, _, _)
RECURSIVE WhileLength(_, _, _)
RECURSIVE ForEachItem(_, _, _, _, _, _, _)
RECURSIVE ForEachKey(_, _, _, _, _, _)

\* Dereference without the clone: the given object itself is worked on
DereferenceShares(h, obj, copyByRef) == Ok(h, obj)

\* the de-referencing step: a shallow clone unless copyByRef
Dereference(h, obj, copyByRef) ==
  IF copyByRef THEN Ok(h, obj)
  ELSE IF getObjectType(h, obj) = "array" THEN SpreadArray(h, obj)
  ELSE IF getObjectType(h, obj) = "object" THEN SpreadObject(h, obj)
  ELSE Ok(h, obj)

\* UpdateProp that assigns undefined where it should splice or delete
UpdatePropAssigns(h, result, prop, replaceWith) == SetProp(h, result, prop, replaceWith)

\* the update of one property: splice, delete or assign
UpdateProp(h, result, prop, replaceWith) ==
  IF replaceWith = Undef /\ h[result.n].kind = "array" THEN Splice(h, result, prop)
  ELSE IF replaceWith = Undef /\ h[result.n].kind = "object" THEN DeleteProp(h, result, prop)
  ELSE SetProp(h, result, prop, replaceWith)

\* while (result.length) findDirectPropInObject(result, 0, true, value)
WhileLength(h, result, d) ==
  IF Len(h[result.n].elems) = 0 THEN Ok(h, result)
  ELSE LET r == findDirectPropInObject(h, result, IdxStr(0), TRUE, TRUE, Undef, d)
       IN IF r.e # "none" THEN r ELSE WhileLength(r.h, result, d)

\* index of the element the callback of the wildcard write works on
ItemIndex(length, index) == length - 1 - index

\* result.forEach((item, index) => ...) of the wildcard write on an array;
\* forEach visits only the indices still present in the array
ForEachItem(h, result, length, index, copyByRef, value, d) ==
  IF index >= length THEN Ok(h, result)
  ELSE IF index >= Len(h[result.n].elems) \/ h[result.n].elems[index + 1].t = "hole"
  THEN ForEachItem(h, result, length, index + 1, copyByRef, value, d)
  ELSE
    LET itemIndex == ItemIndex(length, index)
        key == IdxStr(itemIndex)
        itemValue == IF value.t = "function"
                     THEN Apply(value, GetProp(h, result, key)) ELSE value
    IN IF itemValue = Undef
       THEN LET r == findDirectPropInObject(h, result, key, TRUE, TRUE, Undef, d)
            IN IF r.e # "none" THEN r
               ELSE ForEachItem(r.h, result, length, index + 1, copyByRef, value, d)
       ELSE LET r == findDirectPropInObject(h, result, key, copyByRef, TRUE, itemValue, d)
            IN IF r.e # "none" THEN r
               ELSE ForEachItem(SetProp(r.h, result, key, GetProp(r.h, r.v, key)),
                                result, length, index + 1, copyByRef, value, d)

\* Object.keys(result).forEach(key => findDirectPropInObject(result, key, true, value))
ForEachKey(h, result, keys, i, value, d) ==
  IF i > Len(keys) THEN Ok(h, result)
  ELSE LET r == findDirectPropInObject(h, result, keys[i], TRUE, TRUE, value, d)
       IN IF r.e # "none" THEN r ELSE ForEachKey(r.h, result, keys, i + 1, value, d)

\* Object.values(result) as a fresh array
ObjectValues(h, result) ==
  Alloc(h, NewArray(Tup([i \in 1..Len(h[result.n].ents) |-> h[result.n].ents[i].v])))

findDirectPropInObject(h, obj, prop, copyByRef, rep, value, d) ==
  IF d = 0 THEN Err(h, "RangeError")
  ELSE IF ~IsComposite(h, obj) THEN Ok(h, obj)
  ELSE
    LET c == Dereference(h, obj, copyByRef)
        h1 == c.h
        result == c.v
        type == getObjectType(h, obj)
    IN IF prop = "" THEN (IF rep THEN Ok(h1, result) ELSE Ok(h1, Undef))
       ELSE IF prop = "*" /\ rep
       THEN IF type = "array"
            THEN IF value = Undef
                 THEN WhileLength(h1, result, d - 1)
                 ELSE ForEachItem(h1, result, Len(h1[result.n].elems), 0,
                                  copyByRef, value, d - 1)
            ELSE ForEachKey(h1, result, ObjectKeys(h1, result), 1, value, d - 1)
       ELSE IF prop = "*"
       THEN IF type = "array" THEN Ok(h1, result) ELSE ObjectValues(h1, result)
       ELSE IF rep
       THEN LET replaceWith == IF value.t = "function"
                               THEN Apply(value, GetProp(h1, result, prop)) ELSE value
            IN Ok(UpdateProp(h1, result, prop, replaceWith), result)
       ELSE Ok(h1, GetProp(h1, result, prop))

(***************************************************************************)
(* findPropInObject(obj, pathStr, copyByRef, ...args).  The module is      *)
(* strict-mode code (an ES module): reading a property of null or          *)
(* undefined, and assigning a property of any primitive, throw TypeError.  *)
(***************************************************************************)
RECURSIVE findPropInObject(_, _, _, _, _, _, _)
RECURSIVE WriteEachItem(_, _, _, _, _, _, _)
RECURSIVE WriteEachKey(_, _, _, _, _, _, _, _)
RECURSIVE MapItems(_, _, _, _, _, _, _)

\* null and undefined have no properties to read
IsNullish(v) == v.t \in {"null", "undefined"}

\* WriteEachItem that drops what the recursion returns instead of storing it
WriteEachItemDropsResult(h, result, index, remainingPath, copyByRef, value, d) ==
  IF index >= Len(h[result.n].elems) THEN Ok(h, result)
  ELSE LET r == findPropInObject(h, h[result.n].elems[index + 1], remainingPath,
                                 copyByRef, TRUE, value, d)
       IN IF r.e # "none" THEN r
          ELSE WriteEachItem(r.h, result, index + 1, remainingPath, copyByRef, value, d)

\* result.forEach((item, index) => { result[index] = findPropInObject(item, ...) })
WriteEachItem(h, result, index, remainingPath, copyByRef, value, d) ==
  IF index >= Len(h[result.n].elems) THEN Ok(h, result)
  ELSE IF h[result.n].elems[index + 1].t = "hole"
  THEN WriteEachItem(h, result, index + 1, remainingPath, copyByRef, value, d)
  ELSE LET r == findPropInObject(h, h[result.n].elems[index + 1], remainingPath,
                                 copyByRef, TRUE, value, d)
       IN IF r.e # "none" THEN r
          ELSE WriteEachItem(SetProp(r.h, result, IdxStr(index), r.v), result, index + 1,
                             remainingPath, copyByRef, value, d)

\* Object.keys(result).forEach((key) => { result[key] = findPropInObject(result[key], ...) })
WriteEachKey(h, result, keys, i, remainingPath, copyByRef, value, d) ==
  IF i > Len(keys) THEN Ok(h, result)
  ELSE LET r == findPropInObject(h, GetProp(h, result, keys[i]), remainingPath,
                                 copyByRef, TRUE, value, d)
       IN IF r.e # "none" THEN r
          ELSE WriteEachKey(SetProp(r.h, result, keys[i], r.v), result, keys, i + 1,
                            remainingPath, copyByRef, value, d)

\* items.map(item => findPropInObject(item, remainingPath, copyByRef)); acc collects
MapItems(h, items, i, acc, remainingPath, copyByRef, d) ==
  IF i > Len(items) THEN Alloc(h, NewArray(acc))
  ELSE IF items[i].t = "hole"
  THEN MapItems(h, items, i + 1, Append(acc, Hole), remainingPath, copyByRef, d)
  ELSE LET r == findPropInObject(h, items[i], remainingPath, copyByRef, FALSE, Undef, d)
       IN IF r.e # "none" THEN r
          ELSE MapItems(r.h, items, i + 1, Append(acc, r.v), remainingPath, copyByRef, d)

\* WriteThrough that drops what the recursion returns instead of storing it back
WriteThroughDropsResult(h, result, prop, remainingPath, copyByRef, value, d) ==
  IF IsNullish(result) THEN Err(h, "TypeError")
  ELSE IF GetProp(h, result, prop) = Undef /\ ~IsRef(result) THEN Err(h, "TypeError")
  ELSE
    LET m == IF GetProp(h, result, prop) = Undef
             THEN LET a == Alloc(h, NewObject(<<>>))
                  IN SetProp(a.h, result, prop, a.v)
             ELSE h
        r == findPropInObject(m, GetProp(m, result, prop), remainingPath,
                              copyByRef, TRUE, value, d)
    IN IF r.e # "none" THEN r ELSE Ok(r.h, result)

\* the write of a literal first segment: materialise, recurse, store back
WriteThrough(h, result, prop, remainingPath, copyByRef, value, d) ==
  IF IsNullish(result) THEN Err(h, "TypeError")
  ELSE IF GetProp(h, result, prop) = Undef /\ ~IsRef(result) THEN Err(h, "TypeError")
  ELSE
    LET m == IF GetProp(h, result, prop) = Undef
             THEN LET a == Alloc(h, NewObject(<<>>))
                  IN SetProp(a.h, result, prop, a.v)
             ELSE h
        r == findPropInObject(m, GetProp(m, result, prop), remainingPath,
                              copyByRef, TRUE, value, d)
    IN IF r.e # "none" THEN r
       ELSE IF ~IsRef(result) THEN Err(r.h, "TypeError")
       ELSE Ok(SetProp(r.h, result, prop, r.v), result)

\* the read of a literal first segment: result[prop] || {}
ReadThrough(h, result, prop, remainingPath, copyByRef, d) ==
  IF IsNullish(result) THEN Err(h, "TypeError")
  ELSE LET v == GetProp(h, result, prop)
           a == IF Falsy(v) THEN Alloc(h, NewObject(<<>>)) ELSE Ok(h, v)
       IN findPropInObject(a.h, a.v, remainingPath, copyByRef, FALSE, Undef, d)

findPropInObject(h, obj, pathStr, copyByRef, rep, value, d) ==
  IF d = 0 THEN Err(h, "RangeError")
  ELSE
    LET path == ParsePath(pathStr)
        type == getObjectType(h, obj)
    IN IF Len(path) = 1
       THEN findDirectPropInObject(h, obj, path[1], copyByRef, rep, value, d - 1)
       ELSE
         LET c == Dereference(h, obj, copyByRef)
             h1 == c.h
             result == c.v
             prop == path[1]
             remainingPath == JoinPath(Tail(path))
         IN IF rep
            THEN IF prop = "*"
                 THEN IF type = "array"
                      THEN WriteEachItem(h1, result, 0, remainingPath, copyByRef, value, d - 1)
                      ELSE IF type = "object"
                      THEN WriteEachKey(h1, result, ObjectKeys(h1, result), 1,
                                        remainingPath, copyByRef, value, d - 1)
                      ELSE Ok(h1, result)
                 ELSE WriteThrough(h1, result, prop, remainingPath, copyByRef, value, d - 1)
            ELSE IF prop = "*" /\ type = "array"
                 THEN MapItems(h1, h1[result.n].elems, 1, <<>>, remainingPath, copyByRef, d - 1)
                 ELSE IF prop = "*" /\ type = "object"
                 THEN MapItems(h1, Tup([i \in 1..Len(h1[result.n].ents) |-> h1[result.n].ents[i].v]),
                               1, <<>>, remainingPath, copyByRef, d - 1)
                 ELSE ReadThrough(h1, result, prop, remainingPath, copyByRef, d - 1)

(***************************************************************************)
(* mergeObjects, deepCopy, deepCompare, applyDefaults.                     *)
(***************************************************************************)
\* String(key) as a path string: the tokens of the keys the model uses
Tokenize(key) ==
  IF key = "" THEN <<>>
  ELSE IF key = "a.b" THEN <<"a", ".", "b">>
  ELSE <<key>>

\* Object.keys(v) of any value; null and undefined cannot be converted
KeysOf(h, v) ==
  IF IsRef(v) THEN ObjectKeys(h, v)
  ELSE IF v.t = "string" THEN Tup([i \in 1..StrLen(v.s) |-> IdxStr(i - 1)])
  ELSE <<>>

RECURSIVE MergeReduce(_, _, _, _, _)
\* MergeReduce that keeps the accumulator it had instead of the write's result
MergeReduceDropsResult(h, prev, objB, keys, i) ==
  IF i > Len(keys) THEN Ok(h, prev)
  ELSE LET r == findPropInObject(h, prev, Tokenize(keys[i]), FALSE, TRUE,
                                 GetProp(h, objB, keys[i]), MaxStack)
       IN IF r.e # "none" THEN r ELSE MergeReduce(r.h, prev, objB, keys, i + 1)

\* the reduce of mergeObjects: prev = findPropInObject(prev, next, false, objB[next])
MergeReduce(h, prev, objB, keys, i) ==
  IF i > Len(keys) THEN Ok(h, prev)
  ELSE LET r == findPropInObject(h, prev, Tokenize(keys[i]), FALSE, TRUE,
                                 GetProp(h, objB, keys[i]), MaxStack)
       IN IF r.e # "none" THEN r ELSE MergeReduce(r.h, r.v, objB, keys, i + 1)

mergeObjects(h, objA, objB) ==
  IF IsNullish(objB) THEN Err(h, "TypeError")
  ELSE LET a == SpreadObject(h, objA)
       IN MergeReduce(a.h, a.v, objB, KeysOf(h, objB), 1)

RECURSIVE deepCopy(_, _, _)
RECURSIVE CopyEachKey(_, _, _, _, _, _)
\* CopyEachKey that copies every value by reference: a shallow copy
CopyEachKeyShallow(h, obj, newObj, keys, i, d) ==
  IF i > Len(keys) THEN Ok(h, newObj)
  ELSE CopyEachKey(SetProp(h, newObj, keys[i], GetProp(h, obj, keys[i])), obj, newObj,
                   keys, i + 1, d)

\* Object.keys(obj).forEach((key) => { newObj[key] = ... })
CopyEachKey(h, obj, newObj, keys, i, d) ==
  IF i > Len(keys) THEN Ok(h, newObj)
  ELSE LET v == GetProp(h, obj, keys[i])
       IN IF IsComposite(h, v)
          THEN LET r == deepCopy(h, v, d)
               IN IF r.e # "none" THEN r
                  ELSE CopyEachKey(SetProp(r.h, newObj, keys[i], r.v), obj, newObj,
                                   keys, i + 1, d)
          ELSE CopyEachKey(SetProp(h, newObj, keys[i], v), obj, newObj, keys, i + 1, d)

deepCopy(h, obj, d) ==
  IF d = 0 THEN Err(h, "RangeError")
  ELSE IF IsComposite(h, obj)
  THEN LET a == Alloc(h, IF getObjectType(h, obj) = "array"
                         THEN NewArray(<<>>) ELSE NewObject(<<>>))
       IN CopyEachKey(a.h, obj, a.v, ObjectKeys(h, obj), 1, d - 1)
  ELSE Ok(h, obj)

\* String(n) of a natural number
RECURSIVE NumStr(_)
NumStr(k) == IF k < Len(IdxKeys) THEN IdxStr(k)
             ELSE NumStr(k \div Len(IdxKeys)) \o IdxStr(k % Len(IdxKeys))

\* value.toString(); an array joins its elements, null and undefined as ''
RECURSIVE toString(_, _)
RECURSIVE JoinElems(_, _, _)
JoinElems(h, elems, i) ==
  IF i > Len(elems) THEN ""
  ELSE (IF i > 1 THEN "," ELSE "")
       \o (IF IsNullish(Unhole(elems[i])) THEN "" ELSE toString(h, elems[i]))
       \o JoinElems(h, elems, i + 1)

toString(h, v) ==
  IF IsRef(v)
  THEN IF h[v.n].kind = "array" THEN JoinElems(h, h[v.n].elems, 1) ELSE "[object Object]"
  ELSE IF v.t = "number" THEN NumStr(v.n)
  ELSE IF v.t = "boolean" THEN (IF v.n = 1 THEN "true" ELSE "false")
  ELSE IF v.t = "function" THEN "function " \o v.s
  ELSE v.s

\* objA?.toString() === objB?.toString(), for two values of one type
SameString(h, objA, objB) ==
  IF IsNullish(objA) THEN TRUE ELSE toString(h, objA) = toString(h, objB)

RECURSIVE deepCompare(_, _, _)
deepCompare(h, objA, objB) ==
  IF getObjectType(h, objA) # getObjectType(h, objB) THEN FALSE
  ELSE IF IsComposite(h, objA)
          /\ \E i \in 1..Len(ObjectKeys(h, objA)) :
               ~deepCompare(h, GetProp(h, objA, ObjectKeys(h, objA)[i]),
                               GetProp(h, objB, ObjectKeys(h, objA)[i]))
  THEN FALSE
  ELSE SameString(h, objA, objB)

\* the keys of { ...settings, ...defaults }
RECURSIVE UnionKeys(_, _)
UnionKeys(ents, more) ==
  IF more = <<>> THEN Tup([i \in 1..Len(ents) |-> ents[i].k])
  ELSE UnionKeys(SetEnt(ents, Head(more).k, Head(more).v), Tail(more))

RECURSIVE applyDefaults(_, _, _, _)
RECURSIVE DefaultsReduce(_, _, _, _, _, _, _)
\* the reduce of applyDefaults; p is the accumulated entries
DefaultsReduce(h, settings, defaults, keys, i, p, d) ==
  IF i > Len(keys) THEN Alloc(h, NewObject(p))
  ELSE IF IsNullish(settings) \/ IsNullish(defaults) THEN Err(h, "TypeError")
  ELSE
    LET key == keys[i]
        value == getObjectType(h, GetProp(h, settings, key)) # "undefined"
        r == IF getObjectType(h, GetProp(h, defaults, key)) = "object"
             THEN applyDefaults(h, GetProp(h, settings, key), GetProp(h, defaults, key), d)
             ELSE Ok(h, GetProp(h, defaults, key))
    IN IF r.e # "none" THEN r
       ELSE DefaultsReduce(r.h, settings, defaults, keys, i + 1,
                           SetEnt(p, key, IF value THEN GetProp(h, settings, key) ELSE r.v), d)

applyDefaults(h, settingsArg, defaultsArg, d) ==
  IF d = 0 THEN Err(h, "RangeError")
  ELSE
    LET s == IF settingsArg = Undef THEN Alloc(h, NewObject(<<>>)) ELSE Ok(h, settingsArg)
        f == IF defaultsArg = Undef THEN Alloc(s.h, NewObject(<<>>)) ELSE Ok(s.h, defaultsArg)
    IN DefaultsReduce(f.h, s.v, f.v,
                      UnionKeys(OwnEntries(f.h, s.v), OwnEntries(f.h, f.v)), 1, <<>>, d - 1)

(***************************************************************************)
(* Inputs.  An input is written as a tree [t, n, s, kids] and built on the *)
(* heap; TreeOf reads the structure reachable from a value back.           *)
(***************************************************************************)
TLeaf(v) == [t |-> v.t, n |-> v.n, s |-> v.s, kids |-> <<>>]
TArr(items) == [t |-> "array", n |-> 0, s |-> "",
                kids |-> Tup([i \in 1..Len(items) |-> Ent(NumStr(i - 1), items[i])])]
TObj(ents) == [t |-> "object", n |-> 0, s |-> "", kids |-> ents]

RECURSIVE Build(_, _)
RECURSIVE BuildKids(_, _, _, _)
BuildKids(h, kids, i, acc) ==
  IF i > Len(kids) THEN [h |-> h, vals |-> acc]
  ELSE LET b == Build(h, kids[i].v) IN BuildKids(b.h, kids, i + 1, Append(acc, b.v))

Build(h, tree) ==
  IF tree.t \in {"array", "object"}
  THEN LET b == BuildKids(h, tree.kids, 1, <<>>)
       IN Alloc(b.h, IF tree.t = "array" THEN NewArray(b.vals)
                     ELSE NewObject(Tup([i \in 1..Len(b.vals) |-> Ent(tree.kids[i].k, b.vals[i])])))
  ELSE Ok(h, [t |-> tree.t, n |-> tree.n, s |-> tree.s])

RECURSIVE TreeOf(_, _)
TreeOf(h, v) ==
  IF IsRef(v)
  THEN LET o == h[v.n]
       IN [t |-> o.kind, n |-> 0, s |-> "",
           kids |-> Tup([i \in 1..Len(o.elems) |-> Ent(NumStr(i - 1), TreeOf(h, o.elems[i]))])
                    \o Tup([i \in 1..Len(o.ents) |-> Ent(o.ents[i].k, TreeOf(h, o.ents[i].v))])]
  ELSE TLeaf(v)

\* the addresses of the arrays and objects reachable from a value
RECURSIVE Reach(_, _)
Reach(h, v) ==
  IF IsRef(v)
  THEN {v.n} \cup UNION {Reach(h, h[v.n].elems[i]) : i \in 1..Len(h[v.n].elems)}
             \cup UNION {Reach(h, h[v.n].ents[i].v) : i \in 1..Len(h[v.n].ents)}
  ELSE {}

SeqsUpTo(S, n) == UNION {[1..k -> S] : k \in 0..n}

\* scalar leaves: absent, null, falsy and truthy ones
Scalars == {Undef, Null, Num(0), Num(1), Str("x")}
ArrLeaves == {Num(0), Num(1)}

FlatArrays == {TArr(Tup([i \in 1..Len(q) |-> TLeaf(q[i])])) : q \in SeqsUpTo(ArrLeaves, MaxArrLen)}
FlatObjects ==
  {TObj(<<>>)}
  \cup {TObj(<<Ent(k, TLeaf(x))>>) : k \in {"a", "b"}, x \in Scalars}
  \cup {TObj(<<Ent("a", TLeaf(x)), Ent("b", TLeaf(y))>>) : x \in Scalars, y \in {Null, Num(1)}}

\* the composites nested inside other inputs
Inner == {TArr(<<>>), TArr(<<TLeaf(Num(0)), TLeaf(Num(1))>>), TObj(<<>>),
          TObj(<<Ent("a", TLeaf(Num(1)))>>),
          TObj(<<Ent("a", TLeaf(Null)), Ent("b", TLeaf(Num(1)))>>)}
\* the second of two nested composites
InnerSecond == {TArr(<<>>), TObj(<<Ent("a", TLeaf(Num(1)))>>)}
Nested ==
  {TObj(<<Ent("a", i)>>) : i \in Inner}
  \cup {TObj(<<Ent("a", i), Ent("b", j)>>) : i \in Inner, j \in InnerSecond}
  \cup {TArr(<<i>>) : i \in Inner}
  \cup {TArr(<<i, j>>) : i \in Inner, j \in InnerSecond}

\* objects whose own keys are the wildcard or the empty string, and deeper nestings
Special == {TObj(<<Ent("a", TLeaf(Num(0))), Ent("*", TLeaf(Num(1)))>>),
            TObj(<<Ent("", TLeaf(Num(1))), Ent("a", TLeaf(Num(0)))>>),
            TObj(<<Ent("a", TArr(<<TObj(<<Ent("a", TLeaf(Num(1)))>>),
                                  TObj(<<Ent("b", TLeaf(Num(0)))>>)>>))>>),
            TArr(<<TObj(<<Ent("a", TObj(<<Ent("a", TLeaf(Num(0)))>>)),
                          Ent("b", TObj(<<>>))>>)>>)}

Roots == {TLeaf(x) : x \in Scalars} \cup FlatArrays \cup FlatObjects \cup Nested \cup Special

\* path segments and the path strings made of them
Segs == {"a", "0", "1", "*", ""}
SegPaths == {JoinPath(q) : q \in UNION {[1..k -> Segs] : k \in 1..MaxPathLen}}
\* bracket notation, and paths with a wildcard below a prefix
ExtraPaths == {<<"a", "[", "0", "]">>, <<"[", "0", "]", ".", "a">>, <<"[", "*", "]">>,
               <<"a", "[", "*", "]", ".", "a">>, <<"0", ".", "*", ".", "a">>,
               <<"*", ".", "a", ".", "a">>, <<"a", ".", "b">>, <<"b">>}
Paths == SegPaths \cup ExtraPaths

\* replacement values: a deletion, literals, a composite literal, a transformer
Replacements == {TLeaf(Undef), TLeaf(Null), TLeaf(Str("z")), TLeaf(Fn("dropOne")),
                 TObj(<<Ent("b", TLeaf(Num(2)))>>)}

\* fragments of mergeObjects
Fragments ==
  {TObj(<<>>)}
  \cup {TObj(<<Ent(k, x)>>) : k \in {"a", "b", "", "a.b"},
                              x \in {TLeaf(Num(2)), TLeaf(Undef), TLeaf(Fn("dropOne")),
                                     TObj(<<Ent("b", TLeaf(Num(2)))>>)}}
  \cup {TObj(<<Ent("a", x), Ent("b", y)>>) : x \in {TLeaf(Num(2)), TObj(<<>>)},
                                            y \in {TLeaf(Null), TLeaf(Num(2))}}
  \cup {TObj(<<Ent("a", TObj(<<>>)), Ent("a.b", TLeaf(Num(2)))>>)}

\* defaults of applyDefaults
Defaults ==
  {TObj(<<>>), TObj(<<Ent("a", TLeaf(Num(2)))>>),
   TObj(<<Ent("a", TLeaf(Num(2))), Ent("b", TObj(<<Ent("a", TLeaf(Num(2)))>>))>>),
   TObj(<<Ent("a", TObj(<<Ent("b", TLeaf(Num(2)))>>))>>),
   TObj(<<Ent("a", TObj(<<>>)), Ent("c", TLeaf(Null))>>),
   TObj(<<Ent("b", TArr(<<TLeaf(Num(2))>>)), Ent("c", TLeaf(Undef))>>)}

(***************************************************************************)
(* The state machine: an input is built, one call of the library is made   *)
(* on it, and the call's outcome is recorded.                              *)
(***************************************************************************)
VARIABLES
  heap,    \* the heap: a sequence of arrays and objects, addressed by position
  root,    \* the first argument of the call
  pc,      \* "ready" before the call, "done" after it
  call,    \* the call made: [op, path, copyByRef, value, other]
  before,  \* the heap at the moment of the call
  ret,     \* the value the call returned
  err      \* the error the call threw, or "none"

vars == <<heap, root, pc, call, before, ret, err>>

CallOf(op, path, copyByRef, value, other) ==
  [op |-> op, path |-> path, copyByRef |-> copyByRef, value |-> value, other |-> other]

Init ==
  \E t \in Roots :
    /\ heap = Build(<<>>, t).h
    /\ root = Build(<<>>, t).v
    /\ before = Build(<<>>, t).h
    /\ pc = "ready"
    /\ call = CallOf("none", <<>>, FALSE, Undef, Undef)
    /\ ret = Undef
    /\ err = "none"

\* the outcome of a call made on heap h0
Finish(h0, c, r) ==
  /\ before' = h0
  /\ heap' = r.h
  /\ ret' = r.v
  /\ err' = r.e
  /\ call' = c
  /\ pc' = "done"
  /\ UNCHANGED root

\* findPropInObject(root, path, copyByRef)
Read(path, copyByRef) ==
  /\ pc = "ready"
  /\ Finish(heap, CallOf("read", path, copyByRef, Undef, Undef),
            findPropInObject(heap, root, path, copyByRef, FALSE, Undef, MaxStack))

\* findPropInObject(root, path, copyByRef, value)
Write(path, copyByRef, vt) ==
  /\ pc = "ready"
  /\ LET b == Build(heap, vt)
     IN Finish(b.h, CallOf("write", path, copyByRef, b.v, Undef),
               findPropInObject(b.h, root, path, copyByRef, TRUE, b.v, MaxStack))

\* mergeObjects(root, fragment)
Merge(ft) ==
  /\ pc = "ready"
  /\ LET b == Build(heap, ft)
     IN Finish(b.h, CallOf("merge", <<>>, FALSE, Undef, b.v), mergeObjects(b.h, root, b.v))

\* deepCopy(root)
DeepCopy ==
  /\ pc = "ready"
  /\ Finish(heap, CallOf("deepCopy", <<>>, FALSE, Undef, Undef), deepCopy(heap, root, MaxStack))

\* deepCompare(root, other)
DeepCompare(ot) ==
  /\ pc = "ready"
  /\ LET b == Build(heap, ot)
     IN Finish(b.h, CallOf("deepCompare", <<>>, FALSE, Undef, b.v),
               Ok(b.h, Bool(deepCompare(b.h, root, b.v))))

\* applyDefaults(root, defaults)
ApplyDefaults(dt) ==
  /\ pc = "ready"
  /\ LET b == Build(heap, dt)
     IN Finish(b.h, CallOf("applyDefaults", <<>>, FALSE, Undef, b.v),
               applyDefaults(b.h, root, b.v, MaxStack))

Next ==
  \/ \E path \in Paths, copyByRef \in BOOLEAN : Read(path, copyByRef)
  \/ \E path \in Paths, copyByRef \in BOOLEAN, vt \in Replacements : Write(path, copyByRef, vt)
  \/ \E ft \in Fragments : Merge(ft)
  \/ DeepCopy
  \/ \E ot \in Inner \cup FlatArrays : DeepCompare(ot)
  \/ \E dt \in Defaults : ApplyDefaults(dt)

Spec == Init /\ [][Next]_vars

(***************************************************************************)
(* Vocabulary of the properties.                                           *)
(***************************************************************************)
Done == pc = "done"
IsRead == Done /\ call.op = "read"
IsWrite == Done /\ call.op = "write"
segs == ParsePath(call.path)
last == segs[Len(segs)]

\* get(ret, path): the default read of the call's path on the returned root
readBack == findPropInObject(heap, ret, call.path, FALSE, FALSE, Undef, MaxStack)

NoWildcard(q) == \A i \in 1..Len(q) : q[i] # "*"
NoEmpty(q) == \A i \in 1..Len(q) : q[i] # ""

\* every array and object that existed when the call was made is as it was
Untouched == /\ Len(heap) >= Len(before)
             /\ \A a \in 1..Len(before) : heap[a] = before[a]

\* a wildcard-free path q resolves inside v through arrays and objects only:
\* each segment applied to an array is an index, and each non-final segment
\* addresses nothing or an array or object
RECURSIVE PathOK(_, _, _)
PathOK(h, v, q) ==
  /\ IsComposite(h, v)
  /\ getObjectType(h, v) = "array" => IsIdx(q[1])
  /\ \/ Len(q) = 1
     \/ GetProp(h, v, q[1]) = Undef
     \/ PathOK(h, GetProp(h, v, q[1]), Tail(q))

\* the container that the path without its last segment addresses; Undef if none
RECURSIVE Container(_, _, _)
Container(h, v, q) ==
  IF Len(q) = 1 THEN v
  ELSE IF GetProp(h, v, q[1]) = Undef THEN Undef
  ELSE Container(h, GetProp(h, v, q[1]), Tail(q))

\* the elements of an array, or the values of an object, in order
Elements(h, v) ==
  IF h[v.n].kind = "array" THEN Tup([i \in 1..Len(h[v.n].elems) |-> Unhole(h[v.n].elems[i])])
  ELSE Tup([i \in 1..Len(h[v.n].ents) |-> h[v.n].ents[i].v])

(***************************************************************************)
(* C1.  Round-trip law.                                                    *)
(***************************************************************************)
\* C1 as stated: on a composite root, for any wildcard-free path and any literal x,
\* reading the path from the result of a non-destructive write of x returns x.
C1_RoundTrip_AsStated ==
  (/\ IsWrite /\ ~call.copyByRef
   /\ IsComposite(before, root)
   /\ NoWildcard(segs)
   /\ call.value.t # "function")
  => (err = "none" /\ readBack.e = "none" /\ readBack.v = call.value)

\* the cases in which the round trip holds
C1_Pre ==
  /\ IsWrite /\ ~call.copyByRef
  /\ IsComposite(before, root)
  /\ NoWildcard(segs) /\ NoEmpty(segs)
  /\ call.value.t # "function" /\ call.value # Undef
  /\ PathOK(before, root, segs)

\* C1 (amended): on a composite root, for a wildcard-free path without empty segments
\* whose non-final segments each address nothing or an array or object, and whose
\* segments applied to arrays are indices, and for a literal x other than undefined,
\* reading the path from the result of a non-destructive write of x returns x.
C1_RoundTrip == C1_Pre => (err = "none" /\ readBack.e = "none" /\ readBack.v = call.value)

\* a write through a missing intermediate value, read back
C1_Witness ==
  /\ C1_Pre
  /\ Len(segs) >= 2
  /\ GetProp(before, root, segs[1]) = Undef
  /\ readBack.v = call.value

(***************************************************************************)
(* C2.  Deletion law.                                                      *)
(***************************************************************************)
\* C2 as stated: on a composite root, writing undefined at a wildcard-free path removes
\* the entry, and a read of that path on the returned root yields undefined, for an
\* object and for an array at the terminal segment alike.
C2_Deletion_AsStated ==
  (/\ IsWrite /\ call.value = Undef
   /\ IsComposite(before, root)
   /\ NoWildcard(segs))
  => (err = "none" /\ readBack.e = "none" /\ readBack.v = Undef)

C2_Pre ==
  /\ IsWrite /\ call.value = Undef
  /\ IsComposite(before, root)
  /\ NoWildcard(segs) /\ NoEmpty(segs)
  /\ PathOK(before, root, segs)

\* C2 (amended): under the path conditions of C1, writing undefined removes the
\* addressed entry.  In an object the key is removed and a read of the path yields
\* undefined.  In an array exactly one element is removed at the index (none if
\* the index is past the end) and later elements shift down, so a read of the path
\* yields the element that followed the removed one, undefined only if there is none.
C2_Deletion ==
  C2_Pre =>
    /\ err = "none" /\ readBack.e = "none"
    /\ LET c == Container(before, root, segs)
           c2 == Container(heap, ret, segs)
       IN IF c = Undef THEN readBack.v = Undef
          ELSE IF before[c.n].kind = "object"
          THEN /\ readBack.v = Undef
               /\ c2 # Undef /\ heap[c2.n].kind = "object"
               /\ heap[c2.n].ents = DelEnt(before[c.n].ents, last)
          ELSE LET i == IdxOf(last)
                   old == before[c.n].elems
               IN /\ readBack.v = GetProp(before, c, IdxStr(i + 1))
                  /\ c2 # Undef /\ heap[c2.n].kind = "array"
                  /\ heap[c2.n].elems =
                       IF i < Len(old)
                       THEN SubSeq(old, 1, i) \o SubSeq(old, i + 2, Len(old))
                       ELSE old

\* an element that is not the last is deleted from an array: the next one is read back
C2_Witness ==
  /\ C2_Pre
  /\ LET c == Container(before, root, segs)
     IN /\ c # Undef /\ before[c.n].kind = "array"
        /\ IdxOf(last) + 1 < Len(before[c.n].elems)
        /\ readBack.v # Undef

(***************************************************************************)
(* C3.  Non-destructive write.                                             *)
(***************************************************************************)
\* C3: a write with copyByRef = false, at any path and with any replacement, leaves
\* the original root and every array and object that existed before the call exactly
\* as they were; a composite root is returned as a fresh container.
C3_NonDestructive ==
  (IsWrite /\ ~call.copyByRef) =>
    /\ Untouched
    /\ (err = "none" /\ IsComposite(before, root)) => (IsRef(ret) /\ ret.n > Len(before))

\* a non-destructive write through a wildcard that changed the returned structure
C3_Witness ==
  /\ IsWrite /\ ~call.copyByRef /\ err = "none"
  /\ Len(segs) >= 2 /\ ~NoWildcard(segs)
  /\ IsComposite(before, root)
  /\ TreeOf(heap, ret) # TreeOf(before, root)
  /\ TreeOf(heap, root) = TreeOf(before, root)

(***************************************************************************)
(* C4.  Round trip through an intermediate wildcard.                       *)
(***************************************************************************)
\* position of the first wildcard of the path, when it is not the last segment
MidWild == CHOOSE j \in 1..Len(segs) : segs[j] = "*" /\ \A i \in 1..(j - 1) : segs[i] # "*"
HasMidWild == /\ \E j \in 1..(Len(segs) - 1) : segs[j] = "*"
              /\ MidWild < Len(segs)
prefix == SubSeq(segs, 1, MidWild - 1)
rest == SubSeq(segs, MidWild + 1, Len(segs))

\* the value the prefix addresses, walking arrays and objects only
RECURSIVE ValueAt(_, _, _)
ValueAt(h, v, q) ==
  IF q = <<>> THEN v
  ELSE IF ~IsComposite(h, v) THEN Undef
  ELSE ValueAt(h, GetProp(h, v, q[1]), Tail(q))

wildContainer == ValueAt(before, root, prefix)

\* the path is prefix.*.rest and the prefix addresses an array or object whose
\* elements (values) are all objects
C4_Shape ==
  /\ Done /\ call.op \in {"read", "write"}
  /\ HasMidWild
  /\ NoEmpty(rest) /\ NoWildcard(rest)
  /\ IsComposite(before, wildContainer)
  /\ \A i \in 1..Len(Elements(before, wildContainer)) :
       getObjectType(before, Elements(before, wildContainer)[i]) = "object"

\* a read returns, in container order, the reads of rest on the elements
C4_ReadPart ==
  LET els == Elements(before, wildContainer)
  IN /\ err = "none" /\ getObjectType(heap, ret) = "array"
     /\ Len(heap[ret.n].elems) = Len(els)
     /\ \A i \in 1..Len(els) :
          LET r == findPropInObject(before, els[i], JoinPath(rest), FALSE, FALSE, Undef, MaxStack)
          IN r.e = "none" /\ TreeOf(heap, heap[ret.n].elems[i]) = TreeOf(r.h, r.v)

\* after a write of x, a read of the path yields x once per element
C4_WritePart ==
  /\ err = "none" /\ readBack.e = "none"
  /\ getObjectType(readBack.h, readBack.v) = "array"
  /\ readBack.h[readBack.v.n].elems =
       Tup([i \in 1..Len(Elements(before, wildContainer)) |-> call.value])

C4_Pre ==
  /\ C4_Shape
  /\ \A i \in 1..Len(Elements(before, wildContainer)) :
       PathOK(before, Elements(before, wildContainer)[i], rest)

IsMerge == Done /\ call.op = "merge"
fragKeys == KeysOf(before, call.other)
\* a key that is a single path segment: no separator, no bracket, no wildcard
IsPlainKey(k) == Len(Tokenize(k)) <= 1 /\ ~IsDelim(k) /\ k # "*"
\* the keys of base as mergeObjects sees them, in { ...base }
baseEntries == OwnEntries(before, root)

\* C5 as stated: the result of mergeObjects holds exactly fragment[k] at every key k
\* of fragment that has no separator or wildcard, whatever kind of value it is; every
\* key of base that is not a key of fragment keeps its value; base is not modified.
C5_Merge_AsStated ==
  IsMerge =>
    /\ err = "none"
    /\ \A i \in 1..Len(fragKeys) :
         IsPlainKey(fragKeys[i])
           => GetProp(heap, ret, fragKeys[i]) = GetProp(before, call.other, fragKeys[i])
    /\ \A i \in 1..Len(baseEntries) :
         (\A j \in 1..Len(fragKeys) : fragKeys[j] # baseEntries[i].k)
           => GetProp(heap, ret, baseEntries[i].k) = baseEntries[i].v
    /\ Untouched

C5_Pre ==
  /\ IsMerge
  /\ \A i \in 1..Len(fragKeys) : IsPlainKey(fragKeys[i]) /\ fragKeys[i] # ""

\* C5 (amended): when every key of fragment is a non-empty single segment (no
\* separator, no wildcard), the result holds at each key k of fragment: exactly
\* fragment[k] if that is neither a function nor undefined; no entry if it is
\* undefined; and f(base[k]) if it is a function f (no entry when that is
\* undefined).  Every other key of base keeps its value, base is not modified and
\* the result is a fresh object.
C5_Merge ==
  C5_Pre =>
    /\ err = "none" /\ getObjectType(heap, ret) = "object" /\ ret.n > Len(before)
    /\ \A i \in 1..Len(fragKeys) :
         LET k == fragKeys[i]
             x == GetProp(before, call.other, k)
             want == IF x.t = "function" THEN Apply(x, GetEnt(baseEntries, k)) ELSE x
         IN /\ GetProp(heap, ret, k) = want
            /\ HasEnt(heap[ret.n].ents, k) <=> want # Undef
    /\ \A i \in 1..Len(baseEntries) :
         (\A j \in 1..Len(fragKeys) : fragKeys[j] # baseEntries[i].k)
           => GetProp(heap, ret, baseEntries[i].k) = baseEntries[i].v
    /\ Untouched

\* a composite fragment value replaced a base subtree, another base key was kept
C5_Witness ==
  /\ C5_Pre /\ err = "none"
  /\ \E i \in 1..Len(fragKeys) :
       /\ IsRef(GetProp(before, call.other, fragKeys[i]))
       /\ IsComposite(before, GetEnt(baseEntries, fragKeys[i]))
       /\ GetProp(heap, ret, fragKeys[i]) = GetProp(before, call.other, fragKeys[i])
  /\ \E i \in 1..Len(baseEntries) : \A j \in 1..Len(fragKeys) : fragKeys[j] # baseEntries[i].k

(***************************************************************************)
(* C6.  Totality.                                                          *)
(***************************************************************************)
\* C6: every call terminates and returns a value without raising an error and
\* without recursing until the stack is exhausted.
C6_Total == Done => err = "none"

(***************************************************************************)
(* C7.  deepCopy.                                                          *)
(***************************************************************************)
IsDeepCopy == Done /\ call.op = "deepCopy"

\* paths and values with which the copy is then mutated in place
C7_Mutations == {<<<<"a">>, Undef>>, <<<<"0">>, Undef>>, <<<<"a">>, Str("z")>>,
                 <<<<"*">>, Str("z")>>, <<<<"*">>, Undef>>}

\* C7: deepCopy(v) is structurally equal to v, deepCompare holds in both directions,
\* no array or object of the copy is one of v, and setting or deleting entries of
\* the copy leaves v unchanged.
C7_DeepCopy ==
  IsDeepCopy =>
    /\ err = "none"
    /\ deepCompare(heap, root, ret) /\ deepCompare(heap, ret, root)
    /\ TreeOf(heap, ret) = TreeOf(before, root)
    /\ Reach(heap, ret) \cap Reach(before, root) = {}
    /\ Untouched
    /\ \A m \in C7_Mutations :
         LET r == findPropInObject(heap, ret, m[1], TRUE, TRUE, m[2], MaxStack)
         IN TreeOf(r.h, root) = TreeOf(before, root)

\* the copy of a nesting of at least three containers, then changed in place
C7_Witness ==
  /\ IsDeepCopy /\ err = "none"
  /\ Cardinality(Reach(before, root)) >= 3
  /\ Cardinality(Reach(heap, ret)) >= 3
  /\ \E m \in C7_Mutations :
       LET r == findPropInObject(heap, ret, m[1], TRUE, TRUE, m[2], MaxStack)
       IN r.e = "none" /\ TreeOf(r.h, ret) # TreeOf(heap, ret)

(***************************************************************************)
(* C8.  applyDefaults.                                                     *)
(***************************************************************************)
IsApplyDefaults == Done /\ call.op = "applyDefaults"

\* the value the rule gives a key: settings' own value if defined, else the default,
\* the rule applied again inside a default that is an object
RECURSIVE TreeWithDefaults(_, _)
TreeWithDefaults(st, dt) ==
  LET keys == UnionKeys(IF st.t \in {"array", "object"} THEN st.kids ELSE <<>>, dt.kids)
  IN TObj(Tup([i \in 1..Len(keys) |->
       LET sv == GetEnt(IF st.t \in {"array", "object"} THEN st.kids ELSE <<>>, keys[i])
           dv == GetEnt(dt.kids, keys[i])
       IN Ent(keys[i],
              IF sv # Undef /\ sv # TLeaf(Undef) THEN sv
              ELSE IF dv = Undef THEN TLeaf(Undef)
              ELSE IF dv.t = "object" THEN TreeWithDefaults(TLeaf(Undef), dv)
              ELSE dv)]))

\* C8: applyDefaults(settings, defaults) returns an object over the union of the keys,
\* holding settings[k] wherever settings defines k (null, scalars and objects
\* included) and otherwise defaults[k], recursively inside object defaults.
C8_ApplyDefaults ==
  (IsApplyDefaults /\ getObjectType(before, root) = "object")
  => /\ err = "none"
     /\ TreeOf(heap, ret) = TreeWithDefaults(TreeOf(before, root), TreeOf(before, call.other))

(***************************************************************************)
(* C9.  Terminal wildcard write on an array.                               *)
(***************************************************************************)
\* what the write is to leave: each element replaced, the undefined ones removed
RECURSIVE Replaced(_, _)
Replaced(elems, value) ==
  IF elems = <<>> THEN <<>>
  ELSE LET x == IF value.t = "function" THEN Apply(value, Head(elems)) ELSE value
       IN (IF x = Undef THEN <<>> ELSE <<x>>) \o Replaced(Tail(elems), value)

\* C9: a write at the single segment '*' on an array processes every element exactly
\* once: a literal is stored at every index, undefined deletes every element, and a
\* transformer f replaces each element e by f(e), removing those where f(e) is
\* undefined, no element being skipped or left untransformed.
C9_WildcardWrite ==
  (IsWrite /\ segs = <<"*">> /\ getObjectType(before, root) = "array")
  => /\ err = "none" /\ getObjectType(heap, ret) = "array"
     /\ heap[ret.n].elems = Replaced(Elements(before, root), call.value)

(***************************************************************************)
(* C10.  Non-composite root.                                               *)
(***************************************************************************)
\* C10: when the root is neither an array nor an object, a read and a write at any
\* path, of one segment or of several, return the root itself.
C10_ScalarRoot ==
  (Done /\ call.op \in {"read", "write"} /\ ~IsComposite(before, root))
  => (err = "none" /\ ret = root)

====
